---- MODULE Spec2Model ----
(***************************************************************************)
(* The n-dimensional Sobel operator of the 3-D image processing lecture    *)
(* (lectures/three_dimensional_image_processing.ipynb, cell "Edge          *)
(* detection"): kernel_shape and sobel, together with the numpy / scipy    *)
(* primitives sobel calls (np.zeros, reshape, broadcasting *,              *)
(* ndi.convolve(mode='reflect'), **2, +=, np.sqrt, /).                     *)
(*                                                                         *)
(* Arrays are records [shape, dtype, data]: shape is the tuple of axis     *)
(* lengths, data maps every index tuple (0-based entries) to a sample.     *)
(* Python axis d (0-based) is position d+1 of a TLA+ tuple.  Samples of    *)
(* the input hold integer values (exactly representable in float64); the   *)
(* returned array holds exact reals sqrt(num/den), see np_sqrt.            *)
(***************************************************************************)
EXTENDS Integers, Sequences, FiniteSets, TLC

VARIABLES heap, nextId, image, ndim, output, edge_dim, kernel, pc, result,
          response, squared, axes, calls, workers, shapes,
          cell, stmt, names, run_all

\* the position in the notebook and its namespace
nbvars == <<cell, stmt, names, run_all>>

vars == <<heap, nextId, image, ndim, output, edge_dim, kernel, pc, result,
          response, squared, axes, calls, workers, shapes, nbvars>>

-----------------------------------------------------------------------------
(* Bounds of the model.                                                    *)

\* largest number of axes of an input
MaxNdim == 3
\* largest number of samples of the exhaustively enumerated n-dimensional
\* inputs
MaxCells == 2
\* samples of the exhaustively enumerated inputs are 0..MaxVal
MaxVal == 1
\* largest length of the exhaustively enumerated 1-D inputs
MaxLine == 4
\* side of the square 2-D step images (the 5x5 example)
StepLen == 5
\* number of pattern images per dimensionality
NumPatterns == 2
\* largest number of calls of sobel one after the other
MaxCalls == 3
\* largest absolute value of the constant added to every sample
MaxOffset == 1

-----------------------------------------------------------------------------
(* Small helpers on tuples and index sets.                                 *)

Max(a, b) == IF a >= b THEN a ELSE b

RECURSIVE Gcd(_, _)
Gcd(a, b) == IF b = 0 THEN a ELSE Gcd(b, a % b)

RECURSIVE Prod(_)
Prod(s) == IF Len(s) = 0 THEN 1 ELSE Head(s) * Prod(Tail(s))

RECURSIVE Pow(_, _)
Pow(b, e) == IF e = 0 THEN 1 ELSE b * Pow(b, e - 1)

\* every index tuple of an array of the given shape (one tuple, <<>>, for a
\* 0-d array)
RECURSIVE Indices(_)
Indices(shape) ==
    IF Len(shape) = 0 THEN {<<>>}
    ELSE LET rest == Indices(Tail(shape))
         IN  UNION {{<<i>> \o r : r \in rest} : i \in 0 .. Head(shape) - 1}

\* position of an index tuple in C (row-major) order
RECURSIVE FlatIndex(_, _)
FlatIndex(idx, shape) ==
    IF Len(shape) = 0 THEN 0
    ELSE Head(idx) * Prod(Tail(shape)) + FlatIndex(Tail(idx), Tail(shape))

-----------------------------------------------------------------------------
(* Evaluation helpers.  TLC evaluates an operator's argument again at every *)
(* use and a function constructor again at every application; Let binds a  *)
(* value once and Explicit tabulates a function once.  Neither changes a   *)
(* value.                                                                  *)

Let(e, F(_)) == CHOOSE r \in {F(x) : x \in {e}} : TRUE

Explicit(f) == f @@ <<>>

-----------------------------------------------------------------------------
(* numpy primitives.                                                       *)

DTypes == {"float64", "uint8"}

Array(shape, dtype, data) == [shape |-> shape, dtype |-> dtype, data |-> data]

\* a value stored into an array of the given dtype; unsigned 8-bit storage
\* keeps the value modulo 2^8
Cast(dtype, v) == IF dtype = "uint8" THEN v % 256 ELSE v

\* mutant of np_zeros: np.empty(shape, dtype=float), whose buffer holds what
\* earlier calls left in it (here: the number of calls that have returned)
np_zeros_Empty(shape) ==
    Array(shape, "float64", Explicit([idx \in Indices(shape) |-> Len(calls)]))

\* np.zeros(shape, dtype=float)
np_zeros(shape) ==
    Array(shape, "float64", Explicit([idx \in Indices(shape) |-> 0]))

\* vec.reshape(shape) for a 1-D vec (a tuple): C order
reshape(vec, shape) ==
    Let(shape, LAMBDA sh :
        Array(sh, "int64",
              Explicit([idx \in Indices(sh) |-> vec[FlatIndex(idx, sh) + 1]])))

\* index used to read an operand of a broadcast operation: axes of length 1
\* are read at 0
BroadcastIndex(idx, shape) ==
    [k \in 1 .. Len(shape) |-> IF shape[k] = 1 THEN 0 ELSE idx[k]]

\* a * b with numpy broadcasting (equal number of axes; on every axis the
\* lengths agree or one of them is 1)
Multiply(a, b) ==
    Let(<<a, b>>, LAMBDA ab :
        Let([k \in 1 .. Len(ab[1].shape) |-> Max(ab[1].shape[k], ab[2].shape[k])],
            LAMBDA shape :
              Array(shape, ab[1].dtype,
                    Explicit([idx \in Indices(shape) |->
                                ab[1].data[BroadcastIndex(idx, ab[1].shape)]
                              * ab[2].data[BroadcastIndex(idx, ab[2].shape)]]))))

\* mutant of Square: the exponent is dropped
Square_Omitted(a) == a

\* a ** 2, computed in a's dtype
Square(a) ==
    Let(a, LAMBDA A :
        Array(A.shape, A.dtype,
              Explicit([idx \in DOMAIN A.data |->
                          Cast(A.dtype, A.data[idx] * A.data[idx])])))

\* out += a, in place: the value of `out` after the statement
IAdd(out, a) ==
    Let(<<out, a>>, LAMBDA oa :
        Array(oa[1].shape, oa[1].dtype,
              Explicit([idx \in DOMAIN oa[1].data |->
                          oa[1].data[idx] + oa[2].data[idx]])))

\* Exact reals of the result: the record [num, den] is sqrt(num/den) in lowest
\* terms, den > 0.  The IEEE specials are the records with den = 0: NaN (0/0)
\* and Inf (1/0).
NaN == [num |-> 0, den |-> 0]

Inf == [num |-> 1, den |-> 0]

Surd(num, den) ==
    Let(Gcd(num, den), LAMBDA g : [num |-> num \div g, den |-> den \div g])

\* np.sqrt of a float sample (nan, with a warning, for a negative one)
np_sqrt(x) == IF x < 0 THEN NaN ELSE Surd(x, 1)

\* x / y on floats, x and y results of np_sqrt (0/0 is nan and x/0 is inf,
\* both with a warning and no exception)
true_divide(x, y) ==
    IF x = NaN \/ y = NaN THEN NaN
    ELSE IF y.num = 0 THEN (IF x.num = 0 THEN NaN ELSE Inf)
    ELSE IF x = Inf THEN Inf
    ELSE Surd(x.num * y.den, x.den * y.num)

\* mutant of SqrtDivide: the result is computed on the flattened accumulator,
\* np.sqrt(a.ravel()) / np.sqrt(n)
SqrtDivide_Ravel(a, n) ==
    Let(a, LAMBDA A :
        Array(<<Prod(A.shape)>>, "float64",
              Explicit([idx \in Indices(<<Prod(A.shape)>>) |->
                          true_divide(np_sqrt(A.data[CHOOSE i \in DOMAIN A.data :
                                                       FlatIndex(i, A.shape) = idx[1]]),
                                      np_sqrt(n))])))

\* np.sqrt(a) / np.sqrt(n) for an array a and a Python int n: a new array
SqrtDivide(a, n) ==
    Let(a, LAMBDA A :
        Array(A.shape, "float64",
              Explicit([idx \in DOMAIN A.data |->
                          true_divide(np_sqrt(A.data[idx]), np_sqrt(n))])))

-----------------------------------------------------------------------------
(* scipy.ndimage.convolve(input, weights, mode='reflect'), origin 0.       *)

\* mutant of Reflect: mode='mirror' (d c b | a b c d | c b a)
Reflect_Mirror(i, n) ==
    IF n = 1 THEN 0
    ELSE IF i % (2 * n - 2) >= n THEN 2 * n - 2 - (i % (2 * n - 2))
    ELSE i % (2 * n - 2)

\* mutant of Reflect: mode='wrap' (a b c d | a b c d | a b c d)
Reflect_Wrap(i, n) == i % n

\* mode='reflect' (d c b a | a b c d | d c b a): the in-range index read for
\* position i of an axis of length n
Reflect(i, n) ==
    IF i % (2 * n) >= n THEN 2 * n - 1 - (i % (2 * n)) ELSE i % (2 * n)

\* mutant of Sample: mode='constant', cval=0
Sample_Constant(a, pos) ==
    IF \A k \in 1 .. Len(a.shape) : pos[k] >= 0 /\ pos[k] < a.shape[k]
    THEN a.data[pos]
    ELSE 0

\* the sample of `a` the filter reads at the (possibly out-of-range) position
\* pos
Sample(a, pos) ==
    a.data[[k \in 1 .. Len(a.shape) |-> Reflect(pos[k], a.shape[k])]]

\* mutant of Centre: the filter is placed one sample off its centre
Centre_Off(size) == size \div 2 + 1

\* origin=0: the filter is centred on its middle entry
Centre(size) == size \div 2

\* sum_{j} weights[j] * input[idx + centre - j] over the weights' indices j
\* whose first Len(j) entries are fixed and whose next entry is >= t
RECURSIVE ConvolveSum(_, _, _, _, _)
ConvolveSum(a, weights, idx, j, t) ==
    IF Len(j) = Len(idx)
    THEN Let(j, LAMBDA J :
             weights.data[J]
             * Sample(a, [k \in 1 .. Len(idx) |->
                            idx[k] + Centre(weights.shape[k]) - J[k]]))
    ELSE IF t >= weights.shape[Len(j) + 1] THEN 0
    ELSE ConvolveSum(a, weights, idx, Append(j, t), 0)
         + ConvolveSum(a, weights, idx, j, t + 1)

\* the response has the input's shape and the input's dtype
convolve(a, weights) ==
    Let(<<a, weights>>, LAMBDA aw :
        Array(aw[1].shape, aw[1].dtype,
              Explicit([idx \in DOMAIN aw[1].data |->
                          Cast(aw[1].dtype, ConvolveSum(aw[1], aw[2], idx, <<>>, 0))])))

-----------------------------------------------------------------------------
(* The notebook cell.                                                      *)

\* mutant of edge: a forward difference
edge_Forward == <<1, -1, 0>>

\* mutant of edge: weights that do not sum to zero
edge_Smooth == <<1, 2, 1>>

edge == <<1, 0, -1>>

\* mutant of smooth: uniform weights
smooth_Uniform == <<1, 1, 1>>

smooth == <<1, 2, 1>>

\* kernel_shape(ndim, dim): the list [1,] * ndim with entry dim set to 3
kernel_shape(n, dim) == [k \in 1 .. n |-> IF k = dim + 1 THEN 3 ELSE 1]

\* the inner loop `for smooth_dim in range(ndim)` from smooth_dim on
RECURSIVE SmoothLoop(_, _, _, _)
SmoothLoop(k, n, e_dim, smooth_dim) ==
    IF smooth_dim >= n THEN k
    ELSE IF smooth_dim = e_dim THEN SmoothLoop(k, n, e_dim, smooth_dim + 1)
    ELSE SmoothLoop(Multiply(k, reshape(smooth, kernel_shape(n, smooth_dim))),
                    n, e_dim, smooth_dim + 1)

\* the values of dim kernel_shape is called with in the iteration of the
\* outer loop for edge axis e_dim, in the order of the calls: edge_dim, then
\* every smooth_dim of range(ndim) that is not edge_dim
ShapeArgs(n, e_dim) ==
    <<e_dim>> \o SelectSeq([i \in 1 .. n |-> i - 1], LAMBDA smooth_dim : smooth_dim # e_dim)

\* `shape[dim] = 3` raises IndexError for a list of n entries
IndexError(n, dim) == dim >= n \/ dim < 0 - n

\* mutant of KernelShapeCall: kernel_shape keeps one list for all its calls
\* (`shape` created once, outside the function) and returns it again
KernelShapeCall_Shared(lists, n, dim) ==
    Let([(IF lists = <<>> THEN [k \in 1 .. n |-> 1] ELSE lists[1].shape)
            EXCEPT ![dim + 1] = 3],
        LAMBDA shared :
            Append([i \in DOMAIN lists |-> [lists[i] EXCEPT !.shape = shared]],
                   [ndim |-> n, dim |-> dim, shape |-> shared]))

\* one call kernel_shape(n, dim): `[1,] * ndim` is a new list, the lists
\* returned before are left as they are.  lists holds the lists returned so
\* far, each with the arguments of its call.
KernelShapeCall(lists, n, dim) ==
    Append(lists, [ndim |-> n, dim |-> dim, shape |-> kernel_shape(n, dim)])

\* the lists after the calls kernel_shape(n, dim) for the dims of args
RECURSIVE ShapeCalls(_, _, _)
ShapeCalls(lists, n, args) ==
    IF args = <<>> THEN lists
    ELSE ShapeCalls(KernelShapeCall(lists, n, Head(args)), n, Tail(args))

\* mutant of BuildKernel: from the second edge axis on the kernel is not
\* rebuilt, the new edge factor is multiplied into the kernel of the pass
\* before
BuildKernel_Carry(n, e_dim) ==
    IF e_dim = 0 THEN SmoothLoop(reshape(edge, kernel_shape(n, 0)), n, 0, 0)
    ELSE Multiply(kernel, reshape(edge, kernel_shape(n, e_dim)))

\* the kernel of one iteration of the outer loop
BuildKernel(n, e_dim) ==
    SmoothLoop(reshape(edge, kernel_shape(n, e_dim)), n, e_dim, 0)

\* ndi.convolve(image, kernel, mode='reflect')**2 for the edge axis e_dim
Response(img, e_dim) ==
    Square(convolve(img, BuildKernel(Len(img.shape), e_dim)))

\* the outer loop `for edge_dim in range(ndim)` from e_dim on, as a function
\* of the accumulator
RECURSIVE EdgeLoop(_, _, _)
EdgeLoop(img, out, e_dim) ==
    IF e_dim >= Len(img.shape) THEN out
    ELSE EdgeLoop(img, IAdd(out, Response(img, e_dim)), e_dim + 1)

\* sobel(image) as a function of its argument
sobel(img) ==
    Let(img, LAMBDA im :
        SqrtDivide(EdgeLoop(im, np_zeros(im.shape), 0), Len(im.shape)))

-----------------------------------------------------------------------------
(* The arguments sobel is called with.                                     *)

\* the shapes with n axes, every axis of length >= 1, of at most MaxCells
\* samples
Shapes(n) == {s \in [1 .. n -> 1 .. MaxCells] : Prod(s) <= MaxCells}

\* every array of the given shape and dtype with samples in 0 .. MaxVal
AllArrays(shape, dtype) ==
    {Array(shape, dtype, d) : d \in [Indices(shape) -> 0 .. MaxVal]}

\* every array of at most MaxNdim axes (0 axes included) and MaxCells samples
SmallImages ==
    UNION {AllArrays(s, dt) :
             s \in UNION {Shapes(n) : n \in 0 .. MaxNdim}, dt \in DTypes}

\* every 1-D array of at most MaxLine samples
Lines ==
    UNION {AllArrays(<<len>>, dt) : len \in 1 .. MaxLine, dt \in DTypes}

\* 0 before position k of the given axis, 1 from position k on; constant
\* along every other axis
StepImage(shape, axis, k, dtype) ==
    Array(shape, dtype, [idx \in Indices(shape) |-> IF idx[axis + 1] < k THEN 0 ELSE 1])

Cube(n, len) == [k \in 1 .. n |-> len]

\* the StepLen x StepLen unit steps, along either axis
SquareSteps ==
    {StepImage(Cube(2, StepLen), axis, k, "float64") :
        axis \in 0 .. 1, k \in 1 .. StepLen - 1}

\* side of the n-dimensional step and pattern images: as wide as the kernel,
\* so that they have one sample whose neighbourhood is inside the array
CubeLen == Len(edge)

\* unit steps along one axis in 1 .. MaxNdim dimensions
CubeSteps ==
    UNION {{StepImage(Cube(n, CubeLen), axis, 1, "float64") : axis \in 0 .. n - 1}
           : n \in 1 .. MaxNdim}

\* images without any symmetry
PatternImage(shape, p, dtype) ==
    Array(shape, dtype,
          [idx \in Indices(shape) |->
             (((FlatIndex(idx, shape) + p) * (FlatIndex(idx, shape) + p)) * (p + 1)) % 7])

\* patterns on the cubes of 1 .. MaxNdim dimensions and on every 2-D shape
\* of sides up to CubeLen + 1
Patterns ==
    {PatternImage(Cube(n, CubeLen), p, "float64") :
        n \in 1 .. MaxNdim, p \in 1 .. NumPatterns}
    \cup {PatternImage(<<r, c>>, p, dt) :
            r \in 1 .. CubeLen + 1, c \in 1 .. CubeLen + 1,
            p \in 1 .. NumPatterns, dt \in DTypes}

Images == SmallImages \cup Lines \cup SquareSteps \cup CubeSteps \cup Patterns

\* the arguments of repeated calls: 1-D and 2-D patterns of side 2
CallImages ==
    {PatternImage(Cube(n, 2), p, "float64") : n \in 1 .. 2, p \in 1 .. NumPatterns}

\* the arguments of the calls whose passes are run by workers: patterns of
\* side 2 in 1 .. MaxNdim dimensions
WorkerImages ==
    {PatternImage(Cube(n, 2), p, dt) :
        n \in 1 .. MaxNdim, p \in 1 .. NumPatterns, dt \in DTypes}

-----------------------------------------------------------------------------
(* Calls of sobel, statement by statement.  heap maps object identities to *)
(* arrays; image, output, result, response and squared hold identities     *)
(* (0: unbound).  response and squared are the two temporaries of          *)
(* `output += ndi.convolve(image, kernel, mode='reflect')**2`: the array   *)
(* convolve returns and the array `**2` returns.  axes lists the edge axes *)
(* a convolution pass of the current call has been run for, in the order   *)
(* of the passes; calls lists the argument and the result of every call    *)
(* that has returned; shapes holds the lists kernel_shape has returned in  *)
(* the latest iteration of the loop, in the order of the calls.            *)

\* no notebook cell is being run
NotebookIdle ==
    /\ cell = 0
    /\ stmt = 0
    /\ names = {}
    /\ run_all = FALSE

NoArray == Array(<<>>, "none", <<>>)

Init ==
    /\ \E a \in Images : heap = (1 :> a)
    /\ nextId = 2
    /\ image = 1
    /\ ndim = -1
    /\ output = 0
    /\ edge_dim = 0
    /\ kernel = NoArray
    /\ pc = "call"
    /\ result = 0
    /\ response = 0
    /\ squared = 0
    /\ axes = <<>>
    /\ calls = <<>>
    /\ workers = <<>>
    /\ shapes = <<>>
    /\ NotebookIdle

\* mutant of Enter: `output = image` in place of the np.zeros allocation
Enter_Alias ==
    /\ pc = "call"
    /\ ndim' = Len(heap[image].shape)
    /\ output' = image
    /\ edge_dim' = 0
    /\ axes' = <<>>
    /\ pc' = "loop"
    /\ UNCHANGED <<heap, nextId, image, kernel, result, response, squared, calls, workers, shapes, nbvars>>

\* ndim = image.ndim ... output = np.zeros(image.shape, dtype=float)
Enter ==
    /\ pc = "call"
    /\ ndim' = Len(heap[image].shape)
    /\ output' = nextId
    /\ heap' = heap @@ (nextId :> np_zeros(heap[image].shape))
    /\ nextId' = nextId + 1
    /\ edge_dim' = 0
    /\ axes' = <<>>
    /\ pc' = "loop"
    /\ UNCHANGED <<image, kernel, result, response, squared, calls, workers, shapes, nbvars>>

\* mutant of LoopDone: `for edge_dim in range(ndim - 1)`
LoopDone_Short == edge_dim >= ndim - 1

\* `for edge_dim in range(ndim)` is exhausted
LoopDone == edge_dim >= ndim

\* mutant of Convolve: ndi.convolve(image, kernel, mode='reflect',
\* output=image), the response is written into the input array
Convolve_InPlace ==
    /\ pc = "loop"
    /\ ~LoopDone
    /\ kernel' = BuildKernel(ndim, edge_dim)
    /\ shapes' = ShapeCalls(<<>>, ndim, ShapeArgs(ndim, edge_dim))
    /\ response' = image
    /\ heap' = [heap EXCEPT ![image] = convolve(heap[image], kernel')]
    /\ axes' = Append(axes, edge_dim)
    /\ pc' = "square"
    /\ UNCHANGED <<nextId, image, ndim, output, edge_dim, result, squared, calls, workers, nbvars>>

\* one iteration of `for edge_dim in range(ndim)`, first part: the kernel is
\* built and ndi.convolve(image, kernel, mode='reflect') returns a new array
Convolve ==
    /\ pc = "loop"
    /\ ~LoopDone
    /\ kernel' = BuildKernel(ndim, edge_dim)
    /\ shapes' = ShapeCalls(<<>>, ndim, ShapeArgs(ndim, edge_dim))
    /\ response' = nextId
    /\ heap' = heap @@ (nextId :> convolve(heap[image], kernel'))
    /\ nextId' = nextId + 1
    /\ axes' = Append(axes, edge_dim)
    /\ pc' = "square"
    /\ UNCHANGED <<image, ndim, output, edge_dim, result, squared, calls, workers, nbvars>>

\* second part: `**2` returns a new array; the array convolve returned has no
\* reference left
Power ==
    /\ pc = "square"
    /\ squared' = nextId
    /\ heap' = [id \in (DOMAIN heap \ {response}) \cup {nextId} |->
                  IF id = nextId THEN Square(heap[response]) ELSE heap[id]]
    /\ nextId' = nextId + 1
    /\ response' = 0
    /\ pc' = "add"
    /\ UNCHANGED <<image, ndim, output, edge_dim, kernel, result, axes, calls, workers, shapes, nbvars>>

\* mutant of Accumulate: `output = ...**2` in place of `output += ...**2`
Accumulate_Assign ==
    /\ pc = "add"
    /\ heap' = [id \in DOMAIN heap \ {squared} |->
                  IF id = output THEN heap[squared] ELSE heap[id]]
    /\ squared' = 0
    /\ edge_dim' = edge_dim + 1
    /\ pc' = "loop"
    /\ UNCHANGED <<nextId, image, ndim, output, kernel, result, response, axes, calls, workers, shapes, nbvars>>

\* third part: `output +=` adds the squared response into the accumulator in
\* place; the squared response has no reference left
Accumulate ==
    /\ pc = "add"
    /\ heap' = [id \in DOMAIN heap \ {squared} |->
                  IF id = output THEN IAdd(heap[output], heap[squared]) ELSE heap[id]]
    /\ squared' = 0
    /\ edge_dim' = edge_dim + 1
    /\ pc' = "loop"
    /\ UNCHANGED <<nextId, image, ndim, output, kernel, result, response, axes, calls, workers, shapes, nbvars>>

\* the loop is exhausted: output = np.sqrt(output) / np.sqrt(ndim)
Finish ==
    /\ pc = "loop"
    /\ LoopDone
    /\ output' = nextId
    /\ heap' = heap @@ (nextId :> SqrtDivide(heap[output], ndim))
    /\ nextId' = nextId + 1
    /\ pc' = "return"
    /\ UNCHANGED <<image, ndim, edge_dim, kernel, result, response, squared, axes, calls, workers, shapes, nbvars>>

\* return output; the locals go out of scope
Return ==
    /\ pc = "return"
    /\ result' = output
    /\ heap' = [id \in {image, output} |-> heap[id]]
    /\ calls' = Append(calls, [arg |-> heap[image], result |-> heap[output]])
    /\ pc' = "done"
    /\ UNCHANGED <<nextId, image, ndim, output, edge_dim, kernel, response, squared, axes, workers, shapes, nbvars>>

Next == Enter \/ Convolve \/ Power \/ Accumulate \/ Finish \/ Return

Spec == Init /\ [][Next]_vars

\* the interpreter runs the next statement of a call that has not returned
FairSpec == Spec /\ WF_vars(Next)

-----------------------------------------------------------------------------
(* Calls of sobel one after the other, as in a notebook session that       *)
(* evaluates `edges = sobel(cells)` again and again.                       *)

InitCalls ==
    /\ \E a \in CallImages : heap = (1 :> a)
    /\ nextId = 2
    /\ image = 1
    /\ ndim = -1
    /\ output = 0
    /\ edge_dim = 0
    /\ kernel = NoArray
    /\ pc = "call"
    /\ result = 0
    /\ response = 0
    /\ squared = 0
    /\ axes = <<>>
    /\ calls = <<>>
    /\ workers = <<>>
    /\ shapes = <<>>
    /\ NotebookIdle

\* the caller calls sobel again, on any argument; nothing resets what the
\* earlier call left in ndim, output, edge_dim, kernel and axes
CallAgain ==
    /\ pc = "done"
    /\ Len(calls) < MaxCalls
    /\ \E a \in CallImages : heap' = (nextId :> a)
    /\ image' = nextId
    /\ nextId' = nextId + 1
    /\ result' = 0
    /\ pc' = "call"
    /\ UNCHANGED <<ndim, output, edge_dim, kernel, response, squared, axes, calls, workers, shapes, nbvars>>

NextCalls == Next \/ CallAgain

SpecCalls == InitCalls /\ [][NextCalls]_vars

-----------------------------------------------------------------------------
(* The loop body run by one worker per edge axis.  The iterations of the   *)
(* loop share nothing but image (read) and output (+=): a worker computes  *)
(* the squared response of its axis at any time and in any order, into a   *)
(* buffer of its own, and the responses are added into the accumulator one *)
(* at a time, in any order.  workers maps every axis whose pass has run to *)
(* the identity of its buffer (0 once added); edge_dim counts the axes     *)
(* added and axes lists them in the order of the additions.                *)

InitWorkers ==
    /\ \E a \in WorkerImages : heap = (1 :> a)
    /\ nextId = 2
    /\ image = 1
    /\ ndim = -1
    /\ output = 0
    /\ edge_dim = 0
    /\ kernel = NoArray
    /\ pc = "call"
    /\ result = 0
    /\ response = 0
    /\ squared = 0
    /\ axes = <<>>
    /\ calls = <<>>
    /\ workers = <<>>
    /\ shapes = <<>>
    /\ NotebookIdle

\* the worker of edge axis d builds its kernel and computes
\* ndi.convolve(image, kernel, mode='reflect')**2
WorkerPass(d) ==
    /\ pc = "loop"
    /\ d \in 0 .. ndim - 1
    /\ d \notin DOMAIN workers
    /\ heap' = heap @@ (nextId + d :> Response(heap[image], d))
    /\ workers' = workers @@ (d :> nextId + d)
    /\ UNCHANGED <<nextId, image, ndim, output, edge_dim, kernel, pc, result,
                   response, squared, axes, calls, shapes, nbvars>>

\* mutant of WorkerAdd: `output = ...` in place of `output += ...`
WorkerAdd_Assign(d) ==
    /\ pc = "loop"
    /\ d \in DOMAIN workers
    /\ workers[d] # 0
    /\ heap' = [id \in DOMAIN heap \ {workers[d]} |->
                  IF id = output THEN heap[workers[d]] ELSE heap[id]]
    /\ workers' = [workers EXCEPT ![d] = 0]
    /\ edge_dim' = edge_dim + 1
    /\ axes' = Append(axes, d)
    /\ UNCHANGED <<nextId, image, ndim, output, kernel, pc, result, response,
                   squared, calls, shapes, nbvars>>

\* output += the squared response of edge axis d
WorkerAdd(d) ==
    /\ pc = "loop"
    /\ d \in DOMAIN workers
    /\ workers[d] # 0
    /\ heap' = [id \in DOMAIN heap \ {workers[d]} |->
                  IF id = output THEN IAdd(heap[output], heap[workers[d]]) ELSE heap[id]]
    /\ workers' = [workers EXCEPT ![d] = 0]
    /\ edge_dim' = edge_dim + 1
    /\ axes' = Append(axes, d)
    /\ UNCHANGED <<nextId, image, ndim, output, kernel, pc, result, response,
                   squared, calls, shapes, nbvars>>

NextWorkers ==
    \/ Enter
    \/ \E d \in 0 .. MaxNdim - 1 : WorkerPass(d)
    \/ \E d \in 0 .. MaxNdim - 1 : WorkerAdd(d)
    \/ Finish
    \/ Return

SpecWorkers == InitWorkers /\ [][NextWorkers]_vars

-----------------------------------------------------------------------------
(* The code cells of the notebook, run once each in document order in a    *)
(* fresh kernel.  A statement is the record of its first line in the       *)
(* notebook file, of the global names it reads and of the names it binds;  *)
(* a call of a function the notebook defines reads the globals of the      *)
(* function's body as well (sobel: np, ndi, kernel_shape, range, float).   *)
(* The magics of the first cell read and bind nothing.  cell and stmt are  *)
(* the position (stmt = 0: the cell has not started), names is the         *)
(* namespace, run_all says whether the cells are run by "Run All", which   *)
(* stops at the first exception, or one by one.                            *)

S(line, reads, binds) == [line |-> line, reads |-> reads, binds |-> binds]

Notebook == <<
    \* the cell at line 9
    <<
       S(9, {},
              {}),
       S(10, {},
              {}),
       S(12, {},
              {"cm"}),
       S(13, {},
              {"plt"}),
       S(14, {},
              {"Line3DCollection", "Poly3DCollection"}),
       S(16, {},
              {"np"}),
       S(18, {},
              {"ndi"}),
       S(20, {},
              {"exposure", "feature", "filters", "io", "measure", "morphology", "restoration", "segmentation", "transform", "util"})
    >>,
    \* the cell at line 56
    <<
       S(56, {"io"},
              {"data"}),
       S(58, {"data", "print"},
              {}),
       S(59, {"data", "print"},
              {}),
       S(60, {"data", "print"},
              {})
    >>,
    \* the cell at line 76
    <<
       S(77, {"np"},
              {"original_spacing"}),
       S(80, {"original_spacing"},
              {"rescaled_spacing"}),
       S(83, {"list", "rescaled_spacing"},
              {"spacing"}),
       S(85, {"original_spacing", "print"},
              {}),
       S(86, {"print", "rescaled_spacing"},
              {}),
       S(87, {"print", "spacing"},
              {})
    >>,
    \* the cell at line 103
    <<
       S(103, {},
              {"show_plane"})
    >>,
    \* the cell at line 120
    <<
       S(120, {"plt"},
              {"_", "a", "b", "c"}),
       S(122, {"a", "data", "show_plane"},
              {}),
       S(123, {"b", "data", "show_plane"},
              {}),
       S(124, {"c", "data", "show_plane"},
              {})
    >>,
    \* the cell at line 140
    <<
       S(140, {},
              {"napari"}),
       S(142, {"data", "napari", "spacing"},
              {})
    >>,
    \* the cell at line 170
    <<
       S(171, {},
              {"plot_hist"})
    >>,
    \* the cell at line 185
    <<
       S(185, {},
              {"gamma_low_val"}),
       S(186, {"data", "exposure", "gamma_low_val"},
              {"gamma_low"}),
       S(188, {},
              {"gamma_high_val"}),
       S(189, {"data", "exposure", "gamma_high_val"},
              {"gamma_high"}),
       S(191, {"plt"},
              {"a", "b", "c", "d", "e", "f", "fig"}),
       S(193, {"a", "data", "show_plane"},
              {}),
       S(194, {"b", "gamma_low", "gamma_low_val", "show_plane"},
              {}),
       S(195, {"c", "gamma_high", "gamma_high_val", "show_plane"},
              {}),
       S(197, {"d", "data", "plot_hist"},
              {}),
       S(198, {"e", "gamma_low", "plot_hist"},
              {}),
       S(199, {"f", "gamma_high", "plot_hist"},
              {}),
       S(201, {"fig"},
              {})
    >>,
    \* the cell at line 217
    <<
       S(217, {"data", "exposure"},
              {"equalized"}),
       S(219, {"plt"},
              {"a", "b", "c", "d", "fig"}),
       S(221, {"a", "data", "plot_hist"},
              {}),
       S(222, {"b", "equalized", "plot_hist"},
              {}),
       S(224, {"data", "exposure"},
              {"bins", "cdf"}),
       S(225, {"bins", "c", "cdf"},
              {}),
       S(226, {"c"},
              {}),
       S(228, {"equalized", "exposure"},
              {"bins", "cdf"}),
       S(229, {"bins", "cdf", "d"},
              {}),
       S(230, {"d"},
              {}),
       S(232, {"fig"},
              {})
    >>,
    \* the cell at line 248
    <<
       S(248, {"equalized", "viewer"},
              {})
    >>,
    \* the cell at line 264
    <<
       S(264, {"data", "np"},
              {"vmax", "vmin"}),
       S(266, {"data", "exposure", "np", "vmax", "vmin"},
              {"stretched"}),
       S(272, {"stretched", "viewer"},
              {})
    >>,
    \* the cell at line 281
    <<
       S(289, {"stretched"},
              {"cells"})
    >>,
    \* the cell at line 309
    <<
       S(309, {},
              {"ndi"}),
       S(312, {},
              {"kernel_shape"}),
       S(319, {},
              {"sobel"})
    >>,
    \* the cell at line 344
    <<
       S(344, {"cells", "float", "kernel_shape", "ndi", "np", "range", "sobel"},
              {"edges"}),
       S(346, {"cells", "napari"},
              {"viewer"}),
       S(347, {"edges", "viewer"},
              {})
    >>,
    \* the cell at line 356
    <<
       S(356, {"cells", "ndi"},
              {"denoised"})
    >>,
    \* the cell at line 374
    <<
       S(374, {"denoised", "filters"},
              {"threshold_li"}),
       S(375, {"denoised", "threshold_li"},
              {"li_thresholded"})
    >>,
    \* the cell at line 384
    <<
       S(384, {"li_thresholded", "viewer"},
              {})
    >>,
    \* the cell at line 400
    <<
       S(400, {"li_thresholded", "ndi"},
              {"filled"}),
       S(402, {"filled", "viewer"},
              {})
    >>,
    \* the cell at line 443
    <<
       S(443, {},
              {"width"}),
       S(445, {"filled", "morphology", "width"},
              {"remove_holes"})
    >>,
    \* the cell at line 457
    <<
       S(457, {},
              {"width"}),
       S(459, {"morphology", "remove_holes", "width"},
              {"remove_objects"}),
       S(464, {"remove_objects", "viewer"},
              {})
    >>,
    \* the cell at line 487
    <<
       S(487, {"measure", "remove_objects"},
              {"labels"}),
       S(489, {"labels", "viewer"},
              {})
    >>,
    \* the cell at line 521
    <<
       S(521, {"ndi", "remove_objects", "spacing"},
              {"transformed"}),
       S(523, {"morphology", "transformed"},
              {"maxima"}),
       S(524, {"maxima", "np", "viewer"},
              {})
    >>,
    \* the cell at line 540
    <<
       S(540, {"viewer"},
              {"points"}),
       S(541, {"points"},
              {})
    >>,
    \* the cell at line 552
    <<
       S(552, {"points"},
              {"marker_locations"}),
       S(554, {"cells", "np"},
              {"markers"}),
       S(555, {"int", "marker_locations", "np", "tuple"},
              {"marker_indices"}),
       S(556, {"len", "marker_indices", "marker_locations", "markers", "np"},
              {}),
       S(558, {"edges", "markers_big", "morphology", "remove_objects"},
              {"segmented"}),
       S(564, {"segmented", "viewer"},
              {})
    >>,
    \* the cell at line 596
    <<
       S(596, {"segmentation", "segmented"},
              {"interior_labels"})
    >>,
    \* the cell at line 612
    <<
       S(612, {"interior_labels", "segmentation"},
              {"_", "relabeled"}),
       S(614, {"np", "print", "relabeled"},
              {})
    >>,
    \* the cell at line 632
    <<
       S(632, {"data", "measure", "relabeled"},
              {"regionprops"}),
       S(634, {},
              {"supported"}),
       S(635, {},
              {"unsupported"}),
       S(637, {"NotImplementedError", "regionprops", "supported", "unsupported"},
              {"prop"}),
       S(644, {"print"},
              {}),
       S(645, {"print", "supported"},
              {}),
       S(646, {"print"},
              {}),
       S(647, {"print"},
              {}),
       S(648, {"print", "unsupported"},
              {})
    >>,
    \* the cell at line 664
    <<
       S(664, {"print", "regionprops"},
              {})
    >>,
    \* the cell at line 680
    <<
       S(680, {},
              {"pd"}),
       S(683, {"cells", "measure", "pd", "relabeled"},
              {"info_table"})
    >>,
    \* the cell at line 697
    <<
       S(697, {"info_table"},
              {})
    >>,
    \* the cell at line 713
    <<
       S(713, {"info_table"},
              {})
    >>
>>

\* the builtins the cells read
Builtins == {"NotImplementedError", "float", "int", "len", "list", "print", "range", "tuple"}

InitNotebook ==
    /\ heap = <<>>
    /\ nextId = 1
    /\ image = 0
    /\ ndim = -1
    /\ output = 0
    /\ edge_dim = 0
    /\ kernel = NoArray
    /\ pc = "idle"
    /\ result = 0
    /\ response = 0
    /\ squared = 0
    /\ axes = <<>>
    /\ calls = <<>>
    /\ workers = <<>>
    /\ shapes = <<>>
    /\ cell = 1
    /\ stmt = 0
    /\ names = Builtins
    /\ run_all \in BOOLEAN

sobelvars ==
    <<heap, nextId, image, ndim, output, edge_dim, kernel, pc, result,
      response, squared, axes, calls, workers, shapes>>

\* a statement of the current cell is about to run
AtStatement == cell \in DOMAIN Notebook /\ stmt \in DOMAIN Notebook[cell]

\* the kernel starts the next cell
StartCell ==
    /\ cell \in DOMAIN Notebook
    /\ stmt = 0
    /\ stmt' = 1
    /\ UNCHANGED <<cell, names, run_all, sobelvars>>

\* the statement finds every name it reads and binds its names
RunStatement ==
    /\ AtStatement
    /\ Notebook[cell][stmt].reads \subseteq names
    /\ names' = names \cup Notebook[cell][stmt].binds
    /\ stmt' = stmt + 1
    /\ UNCHANGED <<cell, run_all, sobelvars>>

\* the statement reads a name that is not bound: NameError, the rest of the
\* cell is not run; "Run All" runs no further cell
RaiseNameError ==
    /\ AtStatement
    /\ ~(Notebook[cell][stmt].reads \subseteq names)
    /\ cell' = IF run_all THEN Len(Notebook) + 1 ELSE cell + 1
    /\ stmt' = 0
    /\ UNCHANGED <<names, run_all, sobelvars>>

\* the last statement of the cell has run
EndCell ==
    /\ cell \in DOMAIN Notebook
    /\ stmt = Len(Notebook[cell]) + 1
    /\ cell' = cell + 1
    /\ stmt' = 0
    /\ UNCHANGED <<names, run_all, sobelvars>>

NextNotebook == StartCell \/ RunStatement \/ RaiseNameError \/ EndCell

SpecNotebook == InitNotebook /\ [][NextNotebook]_vars

-----------------------------------------------------------------------------
(* Properties.                                                             *)

\* the argument of the call and the array it returned
Arg == heap[image]

Returned == heap[result]

Done == pc = "done"

\* a real number >= 0 (neither nan nor inf)
NonNegReal(x) == x.den > 0 /\ x.num >= 0

\* C1: for every input with ndim >= 1 (every axis of length >= 1) the array
\* sobel returns has the shape of the input: the same axis lengths and a
\* sample at exactly the input's index tuples.
C1_ShapePreserved ==
    (Done /\ Len(Arg.shape) >= 1) =>
        /\ Returned.shape = Arg.shape
        /\ DOMAIN Returned.data = DOMAIN Arg.data

\* a call on a 2-D input with axes of different lengths has returned
C1_Witness ==
    Done /\ Len(Arg.shape) = 2 /\ Arg.shape[1] # Arg.shape[2]

\* C2: for an input with zero axes sobel raises an error at once and returns
\* no numeric result: a call on a 0-d array never reaches its return.
C2_ScalarRaises == Done => Len(Arg.shape) >= 1

\* C3: for every input with ndim >= 1 every element of the returned array is
\* a real number >= 0.
C3_NonNegative ==
    (Done /\ Len(Arg.shape) >= 1) =>
        \A idx \in DOMAIN Returned.data : NonNegReal(Returned.data[idx])

\* a call has returned an array with a positive element for an input that
\* decreases along an axis (a negative filter response)
C3_Witness ==
    /\ Done
    /\ Len(Arg.shape) = 1
    /\ \E idx \in DOMAIN Arg.data :
          /\ idx[1] + 1 < Arg.shape[1]
          /\ Arg.data[<<idx[1] + 1>>] < Arg.data[idx]
          /\ Returned.data[idx].num > 0

\* C4: a call leaves every element of its argument unchanged, and neither the
\* accumulator nor the returned array is the argument's object.
C4_InputUntouched ==
    /\ [](output # image /\ result # image)
    /\ [][image' = image /\ heap'[image] = heap[image]]_vars

\* a call has returned an array that differs from its argument at some index
C4_Witness ==
    /\ Done
    /\ Len(Arg.shape) >= 1
    /\ result # image
    /\ \E idx \in DOMAIN Arg.data :
          Returned.data[idx].num # Arg.data[idx] * Arg.data[idx] * Returned.data[idx].den

\* comparison of reals >= 0
RealLess(x, y) == x.num * y.den < y.num * x.den

\* the largest element of an array of reals >= 0
Peak(a) ==
    CHOOSE x \in {a.data[idx] : idx \in DOMAIN a.data} :
        \A idx \in DOMAIN a.data : ~RealLess(x, a.data[idx])

\* the sample of a 2-D array at row r, column c, positions out of range
\* mirrored about the border
At(a, r, c) == a.data[<<Reflect(r, a.shape[1]), Reflect(c, a.shape[2])>>]

\* the classical 3x3 Sobel responses at row r, column c:
\*         1 0 -1            1  2  1
\*   Gx =  2 0 -2  * A, Gy = 0  0  0  * A
\*         1 0 -1           -1 -2 -1
Gx(a, r, c) ==
      (At(a, r - 1, c + 1) - At(a, r - 1, c - 1))
    + 2 * (At(a, r, c + 1) - At(a, r, c - 1))
    + (At(a, r + 1, c + 1) - At(a, r + 1, c - 1))

Gy(a, r, c) ==
      (At(a, r + 1, c - 1) - At(a, r - 1, c - 1))
    + 2 * (At(a, r + 1, c) - At(a, r - 1, c))
    + (At(a, r + 1, c + 1) - At(a, r - 1, c + 1))

\* C5: for every 2-D real-valued input, ndim * sobel(image)^2 = Gx^2 + Gy^2
\* at every pixel: the result is the classical Sobel gradient magnitude up to
\* the constant factor 1/sqrt(2).
C5_ClassicalSobel2D ==
    (Done /\ Len(Arg.shape) = 2 /\ Arg.dtype = "float64") =>
        \A idx \in DOMAIN Arg.data :
            /\ NonNegReal(Returned.data[idx])
            /\ ndim * Returned.data[idx].num
                 = (Gx(Arg, idx[1], idx[2]) * Gx(Arg, idx[1], idx[2])
                    + Gy(Arg, idx[1], idx[2]) * Gy(Arg, idx[1], idx[2]))
                   * Returned.data[idx].den

\* a call on a 3x3 input has returned and at its centre both classical
\* responses are non-zero and different
C5_Witness ==
    /\ Done
    /\ Arg.shape = <<3, 3>>
    /\ Arg.dtype = "float64"
    /\ Gx(Arg, 1, 1) # 0
    /\ Gy(Arg, 1, 1) # 0
    /\ Gx(Arg, 1, 1) * Gx(Arg, 1, 1) # Gy(Arg, 1, 1) * Gy(Arg, 1, 1)

\* a unit step along one axis: 0 before position k of the axis, 1 from k on,
\* constant along every other axis
IsUnitStep(a) ==
    /\ Len(a.shape) >= 1
    /\ \E axis \in 0 .. Len(a.shape) - 1 :
         \E k \in 1 .. a.shape[axis + 1] - 1 :
            a = StepImage(a.shape, axis, k, a.dtype)

\* C6 as stated: the peak output for a unit step along one axis is the same
\* for ndim = 1, 2 and 3 (the peak of the 1-D unit step).
C6_SamePeakAnyNdim ==
    (Done /\ Arg.dtype = "float64" /\ IsUnitStep(Arg)) =>
        Peak(Returned) = Peak(sobel(StepImage(<<CubeLen>>, 0, 1, "float64")))

\* C6 as amended: for a real-valued unit step along one axis the peak output
\* is 4^(ndim-1) / sqrt(ndim), i.e. sqrt(16^(ndim-1) / ndim): 1, 4/sqrt(2)
\* and 16/sqrt(3) for ndim = 1, 2, 3.
C6_PeakGrowsWithNdim ==
    (Done /\ Arg.dtype = "float64" /\ IsUnitStep(Arg)) =>
        Peak(Returned) = Surd(Pow(16, ndim - 1), ndim)

\* a call on a 3-D unit step has returned
C6_Witness ==
    Done /\ Arg.dtype = "float64" /\ IsUnitStep(Arg) /\ Arg.shape = Cube(3, CubeLen)

\* an array whose samples are all equal
IsConstant(a) ==
    \A i \in DOMAIN a.data : \A j \in DOMAIN a.data : a.data[i] = a.data[j]

\* C7: for every constant input with ndim >= 1 sobel returns the all-zero
\* array of the input's shape.
C7_ConstantGivesZero ==
    (Done /\ Len(Arg.shape) >= 1 /\ IsConstant(Arg)) =>
        /\ Returned.shape = Arg.shape
        /\ \A idx \in DOMAIN Arg.data : Returned.data[idx] = Surd(0, 1)

\* a call on a constant non-zero 2-D input with more than one sample has
\* returned
C7_Witness ==
    /\ Done
    /\ Len(Arg.shape) = 2
    /\ Prod(Arg.shape) > 1
    /\ IsConstant(Arg)
    /\ \E idx \in DOMAIN Arg.data : Arg.data[idx] # 0

\* C8: for a StepLen x StepLen real-valued input that is 0 in the columns
\* before k and 1 from column k on, the output is the same in every row, it
\* attains its maximum in the two columns next to the step (k-1 and k) and is
\* strictly lower in every other column.
C8_StepPeakAtStepColumns ==
    \A k \in 1 .. StepLen - 1 :
        (Done /\ Arg = StepImage(Cube(2, StepLen), 1, k, "float64")) =>
            \A idx \in DOMAIN Arg.data :
                /\ Returned.data[idx] = Returned.data[<<0, idx[2]>>]
                /\ idx[2] \in {k - 1, k} => Returned.data[idx] = Peak(Returned)
                /\ idx[2] \notin {k - 1, k} => RealLess(Returned.data[idx], Peak(Returned))

\* a call on the step image with its step between columns 1 and 2 has
\* returned, and the peak is positive
C8_Witness ==
    /\ Done
    /\ Arg = StepImage(Cube(2, StepLen), 1, 2, "float64")
    /\ Peak(Returned).num > 0

\* a[i] with a[-1] = a[0] and a[n] = a[n-1]
At1(a, i) ==
    a.data[<<IF i < 0 THEN 0 ELSE IF i >= a.shape[1] THEN a.shape[1] - 1 ELSE i>>]

\* C9: for every 1-D real-valued input a, sobel(a)[i] = |a[i+1] - a[i-1]|
\* with a[-1] = a[0] and a[n] = a[n-1]: the square root of the squared
\* difference, with no other factor.
C9_OneDimAbsDifference ==
    (Done /\ Len(Arg.shape) = 1 /\ Arg.dtype = "float64") =>
        \A idx \in DOMAIN Arg.data :
            /\ Returned.data[idx].den = 1
            /\ Returned.data[idx].num
                 = (At1(Arg, idx[1] + 1) - At1(Arg, idx[1] - 1))
                   * (At1(Arg, idx[1] + 1) - At1(Arg, idx[1] - 1))

\* a call on a 1-D input of length >= 3 has returned a non-zero value at the
\* first index, at the last index and at an interior index
C9_Witness ==
    /\ Done
    /\ Len(Arg.shape) = 1
    /\ Arg.dtype = "float64"
    /\ Arg.shape[1] >= 3
    /\ Returned.data[<<0>>].num > 0
    /\ Returned.data[<<1>>].num > 0
    /\ Returned.data[<<Arg.shape[1] - 1>>].num > 0

\* np.flip(a, axis)
Flip(a, axis) ==
    Let(a, LAMBDA A :
        Array(A.shape, A.dtype,
              Explicit([idx \in DOMAIN A.data |->
                          A.data[[idx EXCEPT ![axis + 1] = A.shape[axis + 1] - 1 - @]]])))

\* C10: for every input and every axis k, sobel(flip(image, k)) is
\* flip(sobel(image), k), at every position.
C10_FlipCommutes ==
    Done =>
        \A k \in 0 .. Len(Arg.shape) - 1 :
            sobel(Flip(Arg, k)) = Flip(Returned, k)

\* a call has returned for an input that differs from its flip along an axis,
\* with an output that differs from its own flip along that axis
C10_Witness ==
    /\ Done
    /\ \E k \in 0 .. Len(Arg.shape) - 1 :
          /\ Flip(Arg, k) # Arg
          /\ Flip(Returned, k) # Returned

\* C11: two calls of sobel on the same argument return the same array,
\* whatever calls were made before or between them.
C11_SameArgSameResult ==
    \A i \in DOMAIN calls : \A j \in DOMAIN calls :
        calls[i].arg = calls[j].arg => calls[i].result = calls[j].result

\* three calls have returned: the first and the third on the same argument,
\* the second on an argument with another number of axes
C11_Witness ==
    /\ Len(calls) = 3
    /\ calls[1].arg = calls[3].arg
    /\ Len(calls[2].arg.shape) # Len(calls[1].arg.shape)

\* C12: every call on an input with ndim >= 1 (axes of length 1 or 2
\* included) returns; when it returns it has run exactly ndim convolution
\* passes and every sample of the returned array is a number (not nan, not
\* inf).
C12_Terminates ==
    /\ (pc = "call" /\ Len(Arg.shape) >= 1) ~> Done
    /\ []((Done /\ Len(Arg.shape) >= 1) =>
            /\ Len(axes) = Len(Arg.shape)
            /\ \A idx \in DOMAIN Returned.data : NonNegReal(Returned.data[idx]))

\* a call on an input with an axis of length 1 and an axis of length 2 has
\* returned after two passes
C12_Witness ==
    Done /\ Arg.shape = <<1, 2>> /\ Len(axes) = 2

\* edge[i_d] times the product over s # d of smooth[i_s], for the index
\* tuple idx from its entry s on, with edge = [1, 0, -1], smooth = [1, 2, 1]
RECURSIVE SeparableEntry(_, _, _)
SeparableEntry(idx, d, s) ==
    IF s >= Len(idx) THEN 1
    ELSE (IF s = d THEN <<1, 0, -1>>[idx[s + 1] + 1] ELSE <<1, 2, 1>>[idx[s + 1] + 1])
         * SeparableEntry(idx, d, s + 1)

\* C13: the kernel handed to the convolution of edge axis d has ndim axes of
\* length 3 each, and its entry at (i_0, ..., i_{ndim-1}) is edge[i_d] times
\* the product over s # d of smooth[i_s]; no factor of an earlier edge axis
\* is left in it.
C13_KernelIsSeparable ==
    pc \in {"square", "add"} =>
        /\ kernel.shape = [k \in 1 .. ndim |-> 3]
        /\ DOMAIN kernel.data = Indices(kernel.shape)
        /\ \A idx \in DOMAIN kernel.data :
              kernel.data[idx] = SeparableEntry(idx, edge_dim, 0)

\* the convolution of the last edge axis of a 3-D input has run
C13_Witness ==
    pc = "square" /\ ndim = 3 /\ edge_dim = 2 /\ Len(kernel.shape) = 3

\* the element-wise sum of the squared convolution responses of the edge
\* axes 0 .. k-1 of img (the all-zero array for k = 0)
RECURSIVE SumResponses(_, _)
SumResponses(img, k) ==
    IF k = 0 THEN np_zeros(img.shape)
    ELSE IAdd(SumResponses(img, k - 1), Response(img, k - 1))

\* C14: whenever the loop is about to test its condition, with the edge axes
\* 0 .. edge_dim-1 processed (each once, in this order), the accumulator is
\* the element-wise sum of the squared responses of exactly these axes (the
\* all-zero array of the input's shape before the first pass); and the
\* array a call with ndim >= 1 returns holds, at every index, the real r >= 0
\* with r^2 = accumulator / ndim for the accumulator over all ndim axes.
C14_AccumulatorIsSumOfSquares ==
    /\ [](pc = "loop" =>
            /\ axes = [i \in 1 .. edge_dim |-> i - 1]
            /\ heap[output] = SumResponses(Arg, edge_dim))
    /\ []((Done /\ ndim >= 1) =>
            Let(SumResponses(Arg, ndim), LAMBDA acc :
                \A idx \in DOMAIN Arg.data :
                    /\ NonNegReal(Returned.data[idx])
                    /\ Returned.data[idx].num * ndim
                         = acc.data[idx] * Returned.data[idx].den))

\* two passes are done and at some index the accumulator differs from either
\* squared response: both axes have contributed there
C14_Witness ==
    /\ pc = "loop"
    /\ edge_dim = 2
    /\ \E idx \in DOMAIN Arg.data :
          /\ heap[output].data[idx] # Response(Arg, 0).data[idx]
          /\ heap[output].data[idx] # Response(Arg, 1).data[idx]

\* the array a with one more sample before and after every axis: index -1
\* of a is a copy of index 0 and index n a copy of index n-1 (the result's
\* index i is index i-1 of a)
Pad(a) ==
    Let(a, LAMBDA A :
        Let([k \in 1 .. Len(A.shape) |-> A.shape[k] + 2], LAMBDA shape :
            Array(shape, A.dtype,
                  Explicit([idx \in Indices(shape) |->
                              A.data[[k \in 1 .. Len(shape) |->
                                        IF idx[k] = 0 THEN 0
                                        ELSE IF idx[k] > A.shape[k] THEN A.shape[k] - 1
                                        ELSE idx[k] - 1]]]))))

\* C15: the response of every convolution pass is, at every position (the
\* positions at the border included), the sum of kernel entry times sample
\* over the 3-wide neighbourhood in which every out-of-range sample is the
\* mirrored in-range one (index -1 reads index 0, index n reads index n-1),
\* i.e. the filter applied without any boundary rule to the padded input.
C15_BorderIsMirrored ==
    [](pc = "square" =>
        Let(Pad(Arg), LAMBDA P :
            heap[response] =
                Array(Arg.shape, Arg.dtype,
                      [idx \in DOMAIN Arg.data |->
                         Cast(Arg.dtype,
                              ConvolveSum(P, kernel,
                                          [k \in 1 .. Len(idx) |-> idx[k] + 1],
                                          <<>>, 0))])))

\* a pass has run on a 1-D input of length >= 3 whose first sample is neither
\* zero nor the last sample, and the response at the first index is not zero
C15_Witness ==
    /\ pc = "square"
    /\ ndim = 1
    /\ Arg.shape[1] >= 3
    /\ Arg.data[<<0>>] # 0
    /\ Arg.data[<<0>>] # Arg.data[<<Arg.shape[1] - 1>>]
    /\ heap[response].data[<<0>>] # 0

\* the element-wise sum of the squared responses of those of the edge axes
\* 0 .. k-1 of img that are longer than 1
RECURSIVE LongAxesSum(_, _)
LongAxesSum(img, k) ==
    IF k = 0 THEN np_zeros(img.shape)
    ELSE IF img.shape[k] = 1 THEN LongAxesSum(img, k - 1)
    ELSE IAdd(LongAxesSum(img, k - 1), Response(img, k - 1))

\* C16: when the edge axis of a pass has length 1, the convolution response
\* and its square are zero at every position; and the array returned for an
\* input with such an axis is sqrt(sum) / sqrt(ndim) for the sum of the
\* squared responses of the other axes alone.
C16_UnitAxisContributesNothing ==
    /\ (pc = "square" /\ Arg.shape[edge_dim + 1] = 1) =>
            \A idx \in DOMAIN Arg.data : heap[response].data[idx] = 0
    /\ (pc = "add" /\ Arg.shape[edge_dim + 1] = 1) =>
            \A idx \in DOMAIN Arg.data : heap[squared].data[idx] = 0
    /\ (Done /\ \E k \in 1 .. ndim : Arg.shape[k] = 1) =>
            Returned = SqrtDivide(LongAxesSum(Arg, ndim), ndim)

\* a call on a 2-D input with one row and several columns has returned an
\* array that is not zero everywhere
C16_Witness ==
    /\ Done
    /\ ndim = 2
    /\ Arg.shape[1] = 1
    /\ Arg.shape[2] >= 2
    /\ \E idx \in DOMAIN Arg.data : Returned.data[idx].num > 0

\* C17: when the squared responses of all edge axes have been computed by
\* workers and added in any order, the accumulator is the one the loop over
\* the axes 0 .. ndim-1 in this order leaves, and the array returned is
\* sobel(image).
C17_AnyOrderSameSum ==
    /\ (pc = "loop" /\ LoopDone) =>
            heap[output] = EdgeLoop(Arg, np_zeros(Arg.shape), 0)
    /\ Done => Returned = sobel(Arg)

\* a call on a 3-D input has returned after its responses were added in the
\* order 2, 0, 1, and the result is not zero everywhere
C17_Witness ==
    /\ Done
    /\ axes = <<2, 0, 1>>
    /\ \E idx \in DOMAIN Arg.data : Returned.data[idx].num > 0

\* C18: a convolution pass creates a new array, its response, which is a
\* function of the input and of the edge axis alone (whatever the accumulator
\* and earlier passes hold), and changes no array that existed before it;
\* squaring creates another new array from that response alone, and changes
\* nothing but the response it consumes; the addition changes no array but
\* the accumulator.
C18_PassReadsInputWritesTemporary ==
    [][/\ (pc = "loop" /\ pc' = "square") =>
            /\ response' \notin DOMAIN heap
            /\ heap'[response'] = convolve(heap[image], BuildKernel(ndim, edge_dim))
            /\ \A id \in DOMAIN heap : heap'[id] = heap[id]
       /\ (pc = "square" /\ pc' = "add") =>
            /\ squared' \notin DOMAIN heap
            /\ heap'[squared'] = Response(heap[image], edge_dim)
            /\ \A id \in DOMAIN heap \ {response} : heap'[id] = heap[id]
       /\ (pc = "add" /\ pc' = "loop") =>
            /\ squared \notin {image, output}
            /\ \A id \in DOMAIN heap' \ {output} : heap'[id] = heap[id]
      ]_vars

\* the pass of the second edge axis has run: its response is a live
\* temporary while the accumulator holds a non-zero sum of the first pass
C18_Witness ==
    /\ pc = "square"
    /\ edge_dim = 1
    /\ response \in DOMAIN heap \ {image, output}
    /\ \E idx \in DOMAIN Arg.data : heap[output].data[idx] # 0
    /\ \E idx \in DOMAIN Arg.data : heap[response].data[idx] # 0

\* the samples of a as real numbers
AsReal(a) == Array(a.shape, "float64", a.data)

\* C19: for an input of unsigned 8-bit samples the response of every pass
\* is the exact sum of kernel entry times sample, its square is the exact
\* square, and the returned array is the one sobel returns for the same
\* samples given as reals.
C19_Uint8AsReal ==
    /\ (Done /\ Arg.dtype = "uint8" /\ ndim >= 1) => Returned = sobel(AsReal(Arg))
    /\ (pc = "add" /\ Arg.dtype = "uint8") =>
            heap[squared].data = Response(AsReal(Arg), edge_dim).data
    /\ (pc = "square" /\ Arg.dtype = "uint8") =>
            heap[response].data = convolve(AsReal(Arg), kernel).data

\* a + c for an array a and a number c
Shift(a, c) ==
    Let(a, LAMBDA A :
        Array(A.shape, A.dtype, Explicit([idx \in DOMAIN A.data |-> A.data[idx] + c])))

\* C20: for every real-valued input A with ndim >= 1 and every constant c,
\* sobel(A + c) is sobel(A), at every position (border positions included).
C20_OffsetInvariant ==
    []((Done /\ ndim >= 1 /\ Arg.dtype = "float64") =>
        \A c \in (-MaxOffset .. MaxOffset) \ {0} :
            sobel(Shift(Arg, c)) = Returned)

\* a call on an input with at least two axes has returned an array that is
\* not zero at the corner with index 0 on every axis
C20_Witness ==
    /\ Done
    /\ ndim >= 2
    /\ Arg.dtype = "float64"
    /\ Returned.data[[k \in 1 .. ndim |-> 0]].num > 0

\* -a
Negate(a) ==
    Let(a, LAMBDA A :
        Array(A.shape, A.dtype, Explicit([idx \in DOMAIN A.data |-> 0 - A.data[idx]])))

\* a flipped along every axis: ndi.correlate(image, kernel) is
\* ndi.convolve(image, FlipAll(kernel))
RECURSIVE FlipAll(_, _)
FlipAll(a, k) == IF k = 0 THEN a ELSE FlipAll(Flip(a, k - 1), k - 1)

\* the kernel of edge axis e_dim built as in the loop, from the difference
\* weights e in place of edge
KernelOfEdge(e, n, e_dim) == SmoothLoop(reshape(e, kernel_shape(n, e_dim)), n, e_dim, 0)

\* sobel(img) with the kernels of the given pass-to-kernel rule K(n, e_dim):
\* the sum over the edge axes below k of the squared responses
RECURSIVE SumOfSquaresWith(_, _, _)
SumOfSquaresWith(K(_, _), img, k) ==
    IF k = 0 THEN np_zeros(img.shape)
    ELSE IAdd(SumOfSquaresWith(K, img, k - 1),
              Square(convolve(img, K(Len(img.shape), k - 1))))

\* C21: for every input, the array sobel returns is the one obtained with
\* the difference weights [-1, 0, 1] in place of [1, 0, -1], and the one
\* obtained with correlation in place of convolution (every kernel flipped
\* along every axis); and for every real-valued input A, sobel(-A) is
\* sobel(A).
C21_SignDoesNotMatter ==
    []((Done /\ ndim >= 1) =>
        /\ Returned = SqrtDivide(SumOfSquaresWith(
                           LAMBDA n, d : KernelOfEdge(<<-1, 0, 1>>, n, d), Arg, ndim), ndim)
        /\ Returned = SqrtDivide(SumOfSquaresWith(
                           LAMBDA n, d : FlipAll(BuildKernel(n, d), n), Arg, ndim), ndim)
        /\ Arg.dtype = "float64" => sobel(Negate(Arg)) = Returned)

\* a call on a real-valued input with at least two axes has returned an
\* array that is not zero everywhere
C21_Witness ==
    /\ Done
    /\ ndim >= 2
    /\ Arg.dtype = "float64"
    /\ \E idx \in DOMAIN Arg.data : Returned.data[idx].num > 0

\* C22: whenever a statement of a cell is about to run, every name it
\* reads is bound in the namespace (by an import, by an earlier cell or by
\* an earlier statement of the cell).
C22_EveryNameBound ==
    AtStatement => Notebook[cell][stmt].reads \subseteq names

\* C23: in every iteration of the loop of sobel, every call of kernel_shape
\* has 0 <= dim < ndim (so `shape[dim] = 3` raises no IndexError), the first
\* call has dim = edge_dim, and when the kernel is complete every list
\* returned in the iteration still has ndim entries, 3 at position dim and 1
\* everywhere else.
C23_KernelShapeInRange ==
    pc \in {"square", "add"} =>
        /\ shapes # <<>>
        /\ shapes[1].dim = edge_dim
        /\ \A i \in DOMAIN shapes :
              /\ shapes[i].ndim = ndim
              /\ shapes[i].dim >= 0
              /\ shapes[i].dim < ndim
              /\ ~IndexError(shapes[i].ndim, shapes[i].dim)
              /\ shapes[i].shape = [k \in 1 .. ndim |-> IF k = shapes[i].dim + 1 THEN 3 ELSE 1]

\* the kernel of the second edge axis of a 3-D input is complete: three
\* calls, with dim = 1, 0, 2
C23_Witness ==
    /\ pc = "square"
    /\ ndim = 3
    /\ edge_dim = 1
    /\ [i \in DOMAIN shapes |-> shapes[i].dim] = <<1, 0, 2>>

====
